---- MODULE Spec2Model ----
(***************************************************************************)
(* Library Inventory Manager (assignment3.py).                             *)
(*                                                                         *)
(* The model follows the classes Book and LibraryInventory: the in-memory  *)
(* list `books`, the backing JSON file, and the operations add_book,       *)
(* issue_book, return_book, save_to_file and load_from_file.  A call is    *)
(* one atomic step (the program is single-threaded and synchronous).  The  *)
(* variables call, outcome, wr and log record what the last call was, the  *)
(* exception it raised (or "ok"), what happened to its file write and what *)
(* it logged; fails counts the failed writes so far.  view is the value    *)
(* the last query (display_all, search_by_title, search_by_isbn) returned  *)
(* to its caller: a list of references to Book objects of the collection,  *)
(* each reference being the position of the object in `books`.             *)
(***************************************************************************)
EXTENDS Integers, Sequences, FiniteSets, TLC

VARIABLES books, file, call, outcome, wr, log, fails, view

vars == <<books, file, call, outcome, wr, log, fails, view>>

(***************************************************************************)
(* Bounds and input sets                                                   *)
(***************************************************************************)
\* longest collection explored
MaxBooks == 2

\* most failed file writes in one behaviour
MaxFails == 1

ISBNs == {"111", "222"}

Titles == {"Dune", "Foundation"}

Authors == {"Herbert"}

\* issue_flow passes input().strip(), which may be the empty string
Users == {"", "Alice", "Bob"}

\* values of datetime.datetime.now().isoformat(timespec="seconds")
Timestamps == {"2025-01-01T10:00:00", "2025-01-01T10:00:01"}

\* what can happen to the write of save_to_file: it succeeds, open("w")
\* raises (the file is left as it was), or the dump/flush raises after
\* open("w") has truncated the file
WriteResults == {"ok", "open_fails", "dump_fails"}

(***************************************************************************)
(* Book                                                                    *)
(***************************************************************************)
\* the dataclass fields, in declaration order
BookFields == <<"title", "author", "isbn", "status", "issued_to", "issued_on">>

\* variant of Book whose default status is issued
Book_DefaultIssued(t, a, i) ==
    [title |-> t, author |-> a, isbn |-> i,
     status |-> "issued", issued_to |-> "", issued_on |-> ""]

\* Book(title, author, isbn): status, issued_to, issued_on take the defaults
Book(t, a, i) ==
    [title |-> t, author |-> a, isbn |-> i,
     status |-> "available", issued_to |-> "", issued_on |-> ""]

FieldOf(b, k) ==
    CASE k = "title" -> b.title
      [] k = "author" -> b.author
      [] k = "isbn" -> b.isbn
      [] k = "status" -> b.status
      [] k = "issued_to" -> b.issued_to
      [] k = "issued_on" -> b.issued_on

\* variant of to_dict that leaves the last field out of the dictionary
to_dict_NoIssuedOn(b) ==
    [n \in 1..(Len(BookFields) - 1) |-> <<BookFields[n], FieldOf(b, BookFields[n])>>]

\* asdict(self): the key/value pairs of the record, in field order
to_dict(b) == [n \in 1..Len(BookFields) |-> <<BookFields[n], FieldOf(b, BookFields[n])>>]

\* variant of is_available that tests for the other status
is_available_Inverted(b) == b.status = "issued"

is_available(b) == b.status = "available"

\* variant of Book.issue without the availability test
Book_issue_NoGuard(b, user_name, ts) ==
    [exc |-> "none",
     book |-> [b EXCEPT !.status = "issued",
                        !.issued_to = user_name,
                        !.issued_on = ts]]

\* Book.issue: result is the exception raised ("none" if none) and the book
Book_issue(b, user_name, ts) ==
    IF ~is_available(b)
    THEN [exc |-> "Exception", book |-> b]
    ELSE [exc |-> "none",
          book |-> [b EXCEPT !.status = "issued",
                             !.issued_to = user_name,
                             !.issued_on = ts]]

\* variant of Book.return_book without the availability test
Book_return_book_NoGuard(b) ==
    [exc |-> "none",
     book |-> [b EXCEPT !.status = "available",
                        !.issued_to = "",
                        !.issued_on = ""]]

\* Book.return_book
Book_return_book(b) ==
    IF is_available(b)
    THEN [exc |-> "Exception", book |-> b]
    ELSE [exc |-> "none",
          book |-> [b EXCEPT !.status = "available",
                             !.issued_to = "",
                             !.issued_on = ""]]

(***************************************************************************)
(* The backing file and JSON                                               *)
(***************************************************************************)
\* A file is absent, or holds text.  Text is modelled by its JSON reading:
\* kind "array" with the objects of the array (each a sequence of key/value
\* pairs), or kind "partial" for text cut short by a failed write, which is
\* never valid JSON (the closing bracket is missing).  A file that was not
\* written by the program can also be of kind "garbage" (text that is not
\* JSON), "scalar" (a JSON number, true, false or null), "object" (a JSON
\* object with members, or a non-empty JSON string) or "empty_object" (the
\* JSON object {} or the JSON string "").
AbsentFile == [exists |-> FALSE, kind |-> "none", items |-> <<>>]

TextFile(kind, items) == [exists |-> TRUE, kind |-> kind, items |-> items]

\* json.dump([b.to_dict() for b in self.books], f, indent=2)
json_dump(bs) == TextFile("array", [n \in 1..Len(bs) |-> to_dict(bs[n])])

Keys(item) == {item[n][1] : n \in 1..Len(item)}

\* dict lookup after json.load: the last pair with that key wins
Get(item, k) ==
    LET idx == {n \in 1..Len(item) : item[n][1] = k}
    IN item[CHOOSE n \in idx : \A m \in idx : m <= n][2]

FieldNames == {BookFields[n] : n \in 1..Len(BookFields)}

\* Book(**item) raises TypeError on an unknown key or a missing required one
ItemOk(item) ==
    /\ Keys(item) \subseteq FieldNames
    /\ {"title", "author", "isbn"} \subseteq Keys(item)

\* Book(**item)
BookFromItem(item) ==
    [title |-> Get(item, "title"),
     author |-> Get(item, "author"),
     isbn |-> Get(item, "isbn"),
     status |-> IF "status" \in Keys(item) THEN Get(item, "status") ELSE "available",
     issued_to |-> IF "issued_to" \in Keys(item) THEN Get(item, "issued_to") ELSE "",
     issued_on |-> IF "issued_on" \in Keys(item) THEN Get(item, "issued_on") ELSE ""]

\* variant of save_to_file that opens the file for appending: what the file
\* held stays in front of what is written
save_to_file_Append(bs, f, w) ==
    CASE w = "ok" -> [file |-> IF f.exists /\ f.kind = "array"
                               THEN TextFile("array", f.items \o json_dump(bs).items)
                               ELSE TextFile("partial", <<>>),
                      log |-> {}]
      [] w = "open_fails" -> [file |-> f, log |-> {"ERROR: Failed to save"}]
      [] w = "dump_fails" -> [file |-> TextFile("partial", <<>>),
                              log |-> {"ERROR: Failed to save"}]

\* variant of save_to_file that writes only the record changed last
save_to_file_LastOnly(bs, f, w) ==
    CASE w = "ok" -> [file |-> json_dump(IF bs = <<>> THEN bs ELSE <<bs[Len(bs)]>>),
                      log |-> {}]
      [] w = "open_fails" -> [file |-> f, log |-> {"ERROR: Failed to save"}]
      [] w = "dump_fails" -> [file |-> TextFile("partial", <<>>),
                              log |-> {"ERROR: Failed to save"}]

\* LibraryInventory.save_to_file: the file afterwards and what is logged; the
\* exception of a failed write is caught and logged, never raised
save_to_file(bs, f, w) ==
    CASE w = "ok" -> [file |-> json_dump(bs), log |-> {}]
      [] w = "open_fails" -> [file |-> f, log |-> {"ERROR: Failed to save"}]
      [] w = "dump_fails" -> [file |-> TextFile("partial", <<>>),
                              log |-> {"ERROR: Failed to save"}]

\* LibraryInventory.load_from_file: the collection afterwards and the log
load_from_file(f) ==
    IF ~f.exists THEN [books |-> <<>>, log |-> {}]
    ELSE IF f.kind \in {"partial", "garbage"}
    \* json.load raises JSONDecodeError
    THEN [books |-> <<>>, log |-> {"ERROR: JSON corrupt. Starting empty catalog."}]
    ELSE IF f.kind = "scalar"
    \* iterating data raises TypeError
    THEN [books |-> <<>>, log |-> {"ERROR: Unexpected error loading file."}]
    ELSE IF f.kind = "object"
    \* iterating data gives strings, and Book(**item) raises TypeError
    THEN [books |-> <<>>, log |-> {"ERROR: Unexpected error loading file."}]
    ELSE IF f.kind = "empty_object"
    \* iterating data gives nothing: the comprehension is the empty list
    THEN [books |-> <<>>, log |-> {}]
    ELSE IF \E n \in 1..Len(f.items) : ~ItemOk(f.items[n])
    THEN [books |-> <<>>, log |-> {"ERROR: Unexpected error loading file."}]
    ELSE [books |-> [n \in 1..Len(f.items) |-> BookFromItem(f.items[n])],
          log |-> {}]

(***************************************************************************)
(* LibraryInventory                                                        *)
(***************************************************************************)
\* variant of search_by_isbn that returns the first record of a non-empty
\* collection whatever its isbn
search_by_isbn_Any(bs, isbn) == IF bs # <<>> THEN 1 ELSE 0

\* search_by_isbn: position of the first record with that isbn, 0 for None
search_by_isbn(bs, isbn) ==
    IF \E n \in 1..Len(bs) : bs[n].isbn = isbn
    THEN CHOOSE n \in 1..Len(bs) :
            /\ bs[n].isbn = isbn
            /\ \A m \in 1..(n - 1) : bs[m].isbn # isbn
    ELSE 0

Result(bs, f, exc, w, lg) ==
    [books |-> bs, file |-> f, exc |-> exc, wr |-> w, log |-> lg]

\* variant of add_book that inserts the book in front
add_book_Prepend(bs, f, book, w) ==
    IF \E n \in 1..Len(bs) : bs[n].isbn = book.isbn
    THEN Result(bs, f, "ValueError", "none", {})
    ELSE LET nbs == <<book>> \o bs
             s == save_to_file(nbs, f, w)
         IN Result(nbs, s.file, "ok", w, s.log \cup {"INFO: Book added"})

\* variant of add_book without the duplicate test
add_book_NoCheck(bs, f, book, w) ==
    LET nbs == Append(bs, book)
        s == save_to_file(nbs, f, w)
    IN Result(nbs, s.file, "ok", w, s.log \cup {"INFO: Book added"})

\* variant of add_book that tests for an equal record, not an equal isbn
add_book_EqCheck(bs, f, book, w) ==
    IF \E n \in 1..Len(bs) : bs[n] = book
    THEN Result(bs, f, "ValueError", "none", {})
    ELSE LET nbs == Append(bs, book)
             s == save_to_file(nbs, f, w)
         IN Result(nbs, s.file, "ok", w, s.log \cup {"INFO: Book added"})

\* LibraryInventory.add_book
add_book(bs, f, book, w) ==
    IF \E n \in 1..Len(bs) : bs[n].isbn = book.isbn
    THEN Result(bs, f, "ValueError", "none", {})
    ELSE LET nbs == Append(bs, book)
             s == save_to_file(nbs, f, w)
         IN Result(nbs, s.file, "ok", w, s.log \cup {"INFO: Book added"})

\* variant of issue_book that undoes the issue when the write fails
issue_book_Rollback(bs, f, isbn, user_name, ts, w) ==
    LET n == search_by_isbn(bs, isbn)
    IN IF n = 0 THEN Result(bs, f, "FileNotFoundError", "none", {})
       ELSE LET r == Book_issue(bs[n], user_name, ts)
            IN IF r.exc # "none" THEN Result(bs, f, r.exc, "none", {})
               ELSE LET nbs == [bs EXCEPT ![n] = r.book]
                        s == save_to_file(nbs, f, w)
                    IN Result(IF s.log = {} THEN nbs ELSE bs, s.file, "ok", w, s.log)

\* LibraryInventory.issue_book
issue_book(bs, f, isbn, user_name, ts, w) ==
    LET n == search_by_isbn(bs, isbn)
    IN IF n = 0 THEN Result(bs, f, "FileNotFoundError", "none", {})
       ELSE LET r == Book_issue(bs[n], user_name, ts)
            IN IF r.exc # "none" THEN Result(bs, f, r.exc, "none", {})
               ELSE LET nbs == [bs EXCEPT ![n] = r.book]
                        s == save_to_file(nbs, f, w)
                    IN Result(nbs, s.file, "ok", w, s.log)

\* variant of return_book that raises a plain Exception for an unknown isbn
return_book_GenericError(bs, f, isbn, w) ==
    LET n == search_by_isbn(bs, isbn)
    IN IF n = 0 THEN Result(bs, f, "Exception", "none", {})
       ELSE LET r == Book_return_book(bs[n])
            IN IF r.exc # "none" THEN Result(bs, f, r.exc, "none", {})
               ELSE LET nbs == [bs EXCEPT ![n] = r.book]
                        s == save_to_file(nbs, f, w)
                    IN Result(nbs, s.file, "ok", w, s.log)

\* LibraryInventory.return_book
return_book(bs, f, isbn, w) ==
    LET n == search_by_isbn(bs, isbn)
    IN IF n = 0 THEN Result(bs, f, "FileNotFoundError", "none", {})
       ELSE LET r == Book_return_book(bs[n])
            IN IF r.exc # "none" THEN Result(bs, f, r.exc, "none", {})
               ELSE LET nbs == [bs EXCEPT ![n] = r.book]
                        s == save_to_file(nbs, f, w)
                    IN Result(nbs, s.file, "ok", w, s.log)

\* variant of __init__ whose _ensure_storage creates the file without
\* writing the empty list into it
construct_Touch(f, w) ==
    LET e == IF ~f.exists
             THEN [file |-> IF w = "open_fails" THEN f ELSE TextFile("partial", <<>>),
                   log |-> IF w = "ok" THEN {} ELSE {"ERROR: Failed to save"}]
             ELSE [file |-> f, log |-> {}]
        l == load_from_file(e.file)
    IN Result(l.books, e.file, "ok", IF ~f.exists THEN w ELSE "none",
              e.log \cup l.log)

\* LibraryInventory.__init__ on a path whose file is f: _ensure_storage
\* writes the empty collection when the file does not exist, then the
\* collection is loaded
construct(f, w) ==
    LET e == IF ~f.exists THEN save_to_file(<<>>, f, w)
                          ELSE [file |-> f, log |-> {}]
        l == load_from_file(e.file)
    IN Result(l.books, e.file, "ok", IF ~f.exists THEN w ELSE "none",
              e.log \cup l.log)

(***************************************************************************)
(* The state machine                                                       *)
(***************************************************************************)
Call(op, isbn, user, title, author) ==
    [op |-> op, isbn |-> isbn, user |-> user, title |-> title, author |-> author]

Failed(w) == w \in {"open_fails", "dump_fails"}

\* one call: its result r becomes the state.  The program bounds neither the
\* collection nor the number of failed writes; the model caps them by
\* MaxBooks and MaxFails.
Apply(r, c) ==
    /\ Len(r.books) <= MaxBooks
    /\ Failed(r.wr) => fails < MaxFails
    /\ fails' = IF Failed(r.wr) THEN fails + 1 ELSE fails
    /\ books' = r.books
    /\ file' = r.file
    /\ outcome' = r.exc
    /\ wr' = r.wr
    /\ log' = r.log
    /\ call' = c
    /\ view' = view

\* the module-level  inventory = LibraryInventory()  of the first run: no
\* catalog.json exists yet
Init ==
    \E w \in WriteResults :
        LET r == construct(AbsentFile, w)
        IN /\ Failed(r.wr) => 0 < MaxFails
           /\ fails = IF Failed(r.wr) THEN 1 ELSE 0
           /\ books = r.books
           /\ file = r.file
           /\ outcome = r.exc
           /\ wr = r.wr
           /\ log = r.log
           /\ call = Call("construct", "", "", "", "")
           /\ view = <<>>

\* add_book_flow: inventory.add_book(Book(title=t, author=a, isbn=i)), in
\* an environment where the write ends in one of the ways W
AddBookOf(W) ==
    \E t \in Titles, a \in Authors, i \in ISBNs, w \in W :
        Apply(add_book(books, file, Book(t, a, i), w), Call("add", i, "", t, a))

AddBook == AddBookOf(WriteResults)

\* issue_flow: inventory.issue_book(isbn, user), with the user names U and
\* the clock values T
IssueBookOf(U, T, W) ==
    \E i \in ISBNs, u \in U, ts \in T, w \in W :
        Apply(issue_book(books, file, i, u, ts, w), Call("issue", i, u, "", ""))

IssueBook == IssueBookOf(Users, Timestamps, WriteResults)

\* return_flow: inventory.return_book(isbn)
ReturnBookOf(W) ==
    \E i \in ISBNs, w \in W :
        Apply(return_book(books, file, i, w), Call("return", i, "", "", ""))

ReturnBook == ReturnBookOf(WriteResults)

\* the process exits and the program is run again on the same catalog.json
Restart ==
    \E w \in WriteResults :
        Apply(construct(file, w), Call("construct", "", "", "", ""))

Next == AddBook \/ IssueBook \/ ReturnBook \/ Restart

Spec == Init /\ [][Next]_vars

(***************************************************************************)
(* Start on a catalog.json that the program did not write                  *)
(***************************************************************************)
\* longest array in a file found at the start
MaxInitItems == 1

\* a record with a status that is neither available nor issued
LostItem == to_dict([Book("Dune", "Herbert", "111") EXCEPT !.status = "lost"])

\* a record without the required key isbn
MissingKeyItem == <<<<"title", "Dune">>, <<"author", "Herbert">>>>

\* a record with a key that Book does not have
UnknownKeyItem == to_dict(Book("Dune", "Herbert", "111")) \o <<<<"year", "1965">>>>

\* a record with the required keys only
ShortItem == <<<<"title", "Dune">>, <<"author", "Herbert">>, <<"isbn", "111">>>>

InitItems ==
    {to_dict(Book("Dune", "Herbert", "111")),
     to_dict(Book_issue(Book("Foundation", "Herbert", "222"), "Alice",
                        "2025-01-01T10:00:00").book),
     LostItem, MissingKeyItem, UnknownKeyItem, ShortItem}

InitArrays ==
    UNION {[1..n -> InitItems] : n \in 0..MaxInitItems}

InitFiles ==
    {AbsentFile, TextFile("garbage", <<>>), TextFile("scalar", <<>>),
     TextFile("object", <<>>), TextFile("empty_object", <<>>)}
        \cup {TextFile("array", a) : a \in InitArrays}

\* inventory = LibraryInventory()  on whatever catalog.json holds
InitLoad ==
    \E f \in InitFiles, w \in WriteResults :
        LET r == construct(f, w)
        IN /\ Failed(r.wr) => 0 < MaxFails
           /\ Len(r.books) <= MaxBooks
           /\ fails = IF Failed(r.wr) THEN 1 ELSE 0
           /\ books = r.books
           /\ file = r.file
           /\ outcome = r.exc
           /\ wr = r.wr
           /\ log = r.log
           /\ call = Call("construct", "", "", "", "")
           /\ view = <<>>

SpecLoad == InitLoad /\ [][Next]_vars

(***************************************************************************)
(* Queries, and what their caller can do with the value returned           *)
(***************************************************************************)
\* the characters of the strings used as titles and as queries
Chars(str) ==
    CASE str = "" -> <<>>
      [] str = "Dune" -> <<"D", "u", "n", "e">>
      [] str = "Foundation" -> <<"F", "o", "u", "n", "d", "a", "t", "i", "o", "n">>
      [] str = "dune" -> <<"d", "u", "n", "e">>
      [] str = "UN" -> <<"U", "N">>
      [] str = "xyz" -> <<"x", "y", "z">>
      [] str = "FOUND" -> <<"F", "O", "U", "N", "D">>

\* str.lower() on one character
LowerChar(c) ==
    CASE c = "D" -> "d"
      [] c = "F" -> "f"
      [] c = "N" -> "n"
      [] c = "O" -> "o"
      [] c = "U" -> "u"
      [] OTHER -> c

\* str.lower()
lower(cs) == [n \in 1..Len(cs) |-> LowerChar(cs[n])]

\* q in t, for strings: q is a run of consecutive characters of t
Contains(q, t) ==
    \E k \in 0..(Len(t) - Len(q)) : SubSeq(t, k + 1, k + Len(q)) = q

\* the positions 1..n in order
Positions(n) == [k \in 1..n |-> k]

\* variant of search_by_title that compares without lower()
search_by_title_CaseSensitive(bs, text) ==
    LET q == Chars(text)
        Hit(n) == Contains(q, Chars(bs[n].title))
    IN SelectSeq(Positions(Len(bs)), Hit)

\* LibraryInventory.search_by_title: the list of the matching Book objects,
\* as references
search_by_title(bs, text) ==
    LET q == lower(Chars(text))
        Hit(n) == Contains(q, lower(Chars(bs[n].title)))
    IN SelectSeq(Positions(Len(bs)), Hit)

\* LibraryInventory.display_all: list(self.books) is a new list of the same
\* Book objects
display_all(bs) == Positions(Len(bs))

\* texts typed at "Title contains: "
Queries == {"", "dune", "UN", "xyz", "FOUND"}

\* longest list a caller builds from a returned one
MaxView == 2

\* a query: nothing but the returned value changes
Query(v, c) ==
    /\ view' = v
    /\ call' = c
    /\ outcome' = "ok"
    /\ wr' = "none"
    /\ log' = {}
    /\ UNCHANGED <<books, file, fails>>

\* search_title: inventory.search_by_title(text)
SearchByTitle ==
    \E text \in Queries :
        Query(search_by_title(books, text), Call("search_by_title", "", "", text, ""))

\* search_isbn: inventory.search_by_isbn(isbn); None is the empty view
SearchByIsbn ==
    \E i \in ISBNs :
        LET n == search_by_isbn(books, i)
        IN Query(IF n = 0 THEN <<>> ELSE <<n>>, Call("search_by_isbn", i, "", "", ""))

\* view_books: inventory.display_all()
DisplayAll ==
    Query(display_all(books), Call("display_all", "", "", "", ""))

\* a caller changes the list it was given: it deletes an element or appends
\* a Book object
CallerChangesList ==
    /\ \/ \E k \in 1..Len(view) :
             view' = SubSeq(view, 1, k - 1) \o SubSeq(view, k + 1, Len(view))
       \/ /\ Len(view) < MaxView
          /\ \E n \in 1..Len(books) : view' = Append(view, n)
    /\ call' = Call("caller_list", "", "", "", "")
    /\ outcome' = "ok"
    /\ wr' = "none"
    /\ log' = {}
    /\ UNCHANGED <<books, file, fails>>

\* a caller assigns to the status field of a Book object it was given; the
\* object is the one the collection holds
CallerSetsStatus ==
    /\ \E k \in 1..Len(view), st \in {"available", "issued"} :
          books' = [books EXCEPT ![view[k]].status = st]
    /\ call' = Call("caller_set", "", "", "", "")
    /\ outcome' = "ok"
    /\ wr' = "none"
    /\ log' = {}
    /\ UNCHANGED <<file, fails, view>>

\* one run of the program with a caller that uses every public operation,
\* with a disk that takes every write, one borrower and a clock that stands
NextCaller ==
    \/ AddBookOf({"ok"})
    \/ IssueBookOf({"Alice"}, {"2025-01-01T10:00:00"}, {"ok"})
    \/ ReturnBookOf({"ok"})
    \/ SearchByTitle
    \/ SearchByIsbn
    \/ DisplayAll
    \/ CallerChangesList
    \/ CallerSetsStatus

SpecCaller == Init /\ [][NextCaller]_vars

(***************************************************************************)
(* Properties                                                              *)
(***************************************************************************)
Mutations == {"add", "issue", "return"}

\* the positions of the records with a given isbn
At(bs, isbn) == {n \in 1..Len(bs) : bs[n].isbn = isbn}

\* C1: ISBN uniqueness - in every state reached by add, issue and return
\* calls, successful or failing, no two records of the collection have the
\* same isbn.
C1_IsbnUnique ==
    \A m, n \in 1..Len(books) : m # n => books[m].isbn # books[n].isbn

\* a duplicate add was tried on a collection of two records
C1_Witness ==
    /\ Len(books) = 2
    /\ call.op = "add"
    /\ outcome = "ValueError"

\* C2: an add whose isbn is already in the collection raises ValueError and
\* changes neither the collection nor the file; no write is attempted.
C2_DuplicateAddRejected ==
    [][(call'.op = "add" /\ At(books, call'.isbn) # {})
          => /\ outcome' = "ValueError"
             /\ books' = books
             /\ file' = file
             /\ wr' = "none"]_vars

\* a book b2 # b1 with the isbn of b1 was rejected
C2_Witness ==
    /\ call.op = "add"
    /\ outcome = "ValueError"
    /\ \E n \in At(books, call.isbn) : books[n].title # call.title

\* C3: for every record, issued_to and issued_on are both non-empty if and
\* only if status is issued, whatever user name issue was called with.
C3_IssueFieldInvariant ==
    \A n \in 1..Len(books) :
        (books[n].issued_to # "" /\ books[n].issued_on # "")
            <=> books[n].status = "issued"

\* C4: writing the collection with a successful save_to_file and loading it
\* again, by load_from_file or by constructing a new inventory on the file,
\* gives the same records in the same order with the same six fields.
C4_RoundTrip ==
    /\ [](LET saved == save_to_file(books, file, "ok").file
          IN /\ load_from_file(saved).books = books
             /\ \A w \in WriteResults : construct(saved, w).books = books)
    /\ [][(call'.op = "construct" /\ file = save_to_file(books, file, "ok").file)
             => books' = books]_vars

\* a new inventory was constructed on the file of a collection of two
\* records, one of them issued
C4_Witness ==
    /\ call.op = "construct"
    /\ Len(books) = 2
    /\ \E n \in 1..Len(books) : books[n].status = "issued"
    /\ \E n \in 1..Len(books) : books[n].status = "available"
    /\ load_from_file(file).books = books

\* C5: after a successful add, issue or return whose write succeeded the
\* file is the serialization of the whole collection; as long as no write
\* has failed, memory and file agree between the calls.
C5_FileSync ==
    /\ (call.op \in Mutations /\ outcome = "ok" /\ wr = "ok")
          => file = json_dump(books)
    /\ fails = 0 => file = json_dump(books)

\* an issue was written to the file of a collection of two records
C5_Witness ==
    /\ call.op = "issue"
    /\ outcome = "ok"
    /\ wr = "ok"
    /\ Len(books) = 2
    /\ file.exists /\ Len(file.items) = 2

\* C6: return on a record that is available raises the conflict Exception
\* and leaves the collection and the file as they were.
C6_ReturnAvailableConflict ==
    [][(/\ call'.op = "return"
        /\ \E n \in At(books, call'.isbn) : books[n].status = "available")
          => /\ outcome' = "Exception"
             /\ books' = books
             /\ file' = file
             /\ wr' = "none"]_vars

\* a return was refused for a record that is available
C6_Witness ==
    /\ call.op = "return"
    /\ outcome = "Exception"
    /\ \E n \in At(books, call.isbn) :
          /\ books[n].status = "available"
          /\ books[n].issued_to = ""
          /\ books[n].issued_on = ""

\* C7: issue on a record that is issued raises the conflict Exception; the
\* record keeps its issued_to and issued_on, and the collection and the file
\* are unchanged.
C7_IssueIssuedConflict ==
    [][(/\ call'.op = "issue"
        /\ \E n \in At(books, call'.isbn) : books[n].status = "issued")
          => /\ outcome' = "Exception"
             /\ \A n \in At(books, call'.isbn) :
                   /\ n \in 1..Len(books')
                   /\ books'[n].issued_to = books[n].issued_to
                   /\ books'[n].issued_on = books[n].issued_on
             /\ books' = books
             /\ file' = file
             /\ wr' = "none"]_vars

\* an issue to another user was refused and the record is still issued to
\* the first one
C7_Witness ==
    /\ call.op = "issue"
    /\ outcome = "Exception"
    /\ \E n \in At(books, call.isbn) :
          /\ books[n].status = "issued"
          /\ books[n].issued_to # call.user
          /\ books[n].issued_to # ""
          /\ call.user # ""

\* the exception of a conflict, as Book.return_book raises it
ConflictError == Book_return_book(Book("Dune", "Herbert", "111")).exc

\* C8: issue and return with an isbn no record has raise FileNotFoundError,
\* which is not the exception of a conflict, and change neither the
\* collection nor the file.
C8_NotFoundNoEffect ==
    [][(call'.op \in {"issue", "return"} /\ At(books, call'.isbn) = {})
          => /\ outcome' = "FileNotFoundError"
             /\ outcome' # ConflictError
             /\ books' = books
             /\ file' = file
             /\ wr' = "none"]_vars

\* a return of an unknown isbn was refused on a non-empty collection
C8_Witness ==
    /\ call.op = "return"
    /\ outcome = "FileNotFoundError"
    /\ books # <<>>
    /\ At(books, call.isbn) = {}

\* C9: when the write of an add, issue or return fails, the outcome of the
\* call differs from the outcome of a call that was persisted.
C9_FailureSurfaced ==
    (call.op \in Mutations /\ Failed(wr)) => outcome # "ok"

\* the collection that a valid call c leaves behind, from the collection bs
EffectOf(bs, c, nbs) ==
    CASE c.op = "add" ->
            nbs = Append(bs, Book(c.title, c.author, c.isbn))
      [] c.op = "issue" ->
            /\ Len(nbs) = Len(bs)
            /\ \A n \in 1..Len(bs) :
                  IF bs[n].isbn = c.isbn
                  THEN /\ bs[n].status = "available"
                       /\ nbs[n].status = "issued"
                       /\ nbs[n].issued_to = c.user
                       /\ nbs[n].issued_on \in Timestamps
                       /\ nbs[n].title = bs[n].title
                       /\ nbs[n].author = bs[n].author
                       /\ nbs[n].isbn = bs[n].isbn
                  ELSE nbs[n] = bs[n]
      [] c.op = "return" ->
            /\ Len(nbs) = Len(bs)
            /\ \A n \in 1..Len(bs) :
                  IF bs[n].isbn = c.isbn
                  THEN /\ bs[n].status = "issued"
                       /\ nbs[n] = Book(bs[n].title, bs[n].author, bs[n].isbn)
                  ELSE nbs[n] = bs[n]

\* C10: when the write of a valid add, issue or return fails, no exception
\* reaches the caller, the failure is logged, the collection has the effect
\* of the call, and the file does not receive the new collection: it is as
\* it was, or it is left cut short.
C10_NoRollback ==
    [][(call'.op \in Mutations /\ Failed(wr'))
          => /\ outcome' = "ok"
             /\ "ERROR: Failed to save" \in log'
             /\ EffectOf(books, call', books')
             /\ books' # books
             /\ file' = file \/ file'.kind = "partial"]_vars

\* an issue whose write failed: the record is issued in memory and
\* available in the file
C10_Witness ==
    /\ call.op = "issue"
    /\ Failed(wr)
    /\ outcome = "ok"
    /\ file.kind = "array"
    /\ \E n \in At(books, call.isbn) :
          /\ books[n].status = "issued"
          /\ n \in 1..Len(file.items)
          /\ BookFromItem(file.items[n]).status = "available"

\* a file holds valid structured data when it is an array of records that
\* have the required keys, no unknown key and a legal status
WellFormedItem(item) ==
    /\ ItemOk(item)
    /\ "status" \in Keys(item) => Get(item, "status") \in {"available", "issued"}

WellFormedFile(f) ==
    /\ f.kind = "array"
    /\ \A n \in 1..Len(f.items) : WellFormedItem(f.items[n])

Errors == {"ERROR: JSON corrupt. Starting empty catalog.",
           "ERROR: Unexpected error loading file."}

\* C11: constructing the inventory on a file whose content is not valid
\* structured data raises nothing, leaves the collection empty and logs an
\* error.
C11_CorruptLoadReported ==
    (call.op = "construct" /\ file.exists /\ ~WellFormedFile(file))
        => /\ outcome = "ok"
           /\ books = <<>>
           /\ log \cap Errors # {}

C13_StatusLegal ==
    \A n \in 1..Len(books) : books[n].status \in {"available", "issued"}

C15_LookupAfterIssueReturn ==
    [][(call'.op \in {"issue", "return"} /\ outcome' = "ok")
          => LET n == search_by_isbn(books', call'.isbn)
             IN /\ n \in 1..Len(books')
                /\ books'[n].isbn = call'.isbn
                /\ call'.op = "issue"
                      => /\ books'[n].status = "issued"
                         /\ books'[n].issued_to = call'.user
                         /\ books'[n].issued_on \in Timestamps
                /\ call'.op = "return"
                      => /\ books'[n].status = "available"
                         /\ books'[n].issued_to = ""
                         /\ books'[n].issued_on = ""
                /\ Len(books') = Len(books)
                /\ \A m \in 1..Len(books) :
                      books[m].isbn # call'.isbn => books'[m] = books[m]]_vars

\* Dune (111) and Foundation (222) are in the catalog and 111 was issued to
\* Alice: the lookup of 111 gives it as issued to Alice, 222 is available
C15_Witness ==
    /\ call.op = "issue"
    /\ call.isbn = "111"
    /\ call.user = "Alice"
    /\ outcome = "ok"
    /\ Len(books) = 2
    /\ books[1].title = "Dune"
    /\ books[2].title = "Foundation"
    /\ books[2].isbn = "222"
    /\ books[2].status = "available"
    /\ search_by_isbn(books, "111") = 1
    /\ books[1].issued_to = "Alice"

\* C18: within one run of the program, a record's status changes only from
\* available to issued by a successful issue of its isbn and from issued to
\* available by a successful return of its isbn; a successful issue finds
\* the record available and a successful return finds it issued, so that
\* the successful issues and returns of an isbn alternate.
C18_Alternation ==
    [][call'.op \in Mutations
          => /\ Len(books') >= Len(books)
             /\ \A n \in 1..Len(books) :
                   books'[n].status # books[n].status
                      => /\ outcome' = "ok"
                         /\ call'.isbn = books[n].isbn
                         /\ \/ /\ call'.op = "issue"
                               /\ books[n].status = "available"
                               /\ books'[n].status = "issued"
                            \/ /\ call'.op = "return"
                               /\ books[n].status = "issued"
                               /\ books'[n].status = "available"
             /\ (call'.op = "issue" /\ outcome' = "ok")
                   => \E n \in At(books, call'.isbn) :
                         /\ books[n].status = "available"
                         /\ books'[n].status = "issued"
             /\ (call'.op = "return" /\ outcome' = "ok")
                   => \E n \in At(books, call'.isbn) :
                         /\ books[n].status = "issued"
                         /\ books'[n].status = "available"]_vars

\* an issue was refused because the record is issued: a second issue needs
\* a return first
C18_Witness ==
    /\ call.op = "issue"
    /\ outcome = "Exception"
    /\ Len(books) = 2
    /\ \E n \in At(books, call.isbn) : books[n].status = "issued"
    /\ \E n \in 1..Len(books) : books[n].status = "available"

\* C19: add, issue and return keep every record in its place with its
\* title, author and isbn; a successful issue or return changes nothing in
\* the records of another isbn; a successful add appends one record at the
\* end; a failing call changes nothing; the length never decreases.
C19_Frame ==
    [][call'.op \in Mutations
          => /\ Len(books') >= Len(books)
             /\ \A n \in 1..Len(books) :
                   /\ books'[n].title = books[n].title
                   /\ books'[n].author = books[n].author
                   /\ books'[n].isbn = books[n].isbn
             /\ (call'.op \in {"issue", "return"} /\ outcome' = "ok")
                   => /\ Len(books') = Len(books)
                      /\ \A n \in 1..Len(books) :
                            books[n].isbn # call'.isbn => books'[n] = books[n]
             /\ (call'.op = "add" /\ outcome' = "ok")
                   => /\ Len(books') = Len(books) + 1
                      /\ SubSeq(books', 1, Len(books)) = books
             /\ outcome' # "ok" => books' = books]_vars

\* a book was appended behind a record that was issued before
C19_Witness ==
    /\ call.op = "add"
    /\ outcome = "ok"
    /\ Len(books) = 2
    /\ books[2].isbn = call.isbn
    /\ books[1].isbn # call.isbn
    /\ books[1].status = "issued"
    /\ books[1].issued_to = "Bob"

\* C20: when the file does not hold the collection (an earlier write
\* failed), a successful add, issue or return whose write succeeds leaves
\* the file equal to the serialization of the whole collection, and the
\* file loads as that collection; a failing call writes nothing, so file
\* and collection still disagree.
C20_Recovery ==
    [][(call'.op \in Mutations /\ file # json_dump(books))
          => /\ (outcome' = "ok" /\ wr' = "ok")
                   => /\ file' = TextFile("array",
                                    [n \in 1..Len(books') |-> to_dict(books'[n])])
                      /\ load_from_file(file').books = books'
             /\ outcome' # "ok"
                   => /\ wr' = "none"
                      /\ file' = file
                      /\ file' # json_dump(books')]_vars

\* a write had failed, and the file now holds both records again
C20_Witness ==
    /\ fails > 0
    /\ call.op \in Mutations
    /\ outcome = "ok"
    /\ wr = "ok"
    /\ Len(books) = 2
    /\ file = json_dump(books)
    /\ \E n \in 1..Len(books) : books[n].isbn # call.isbn

\* the pairs of a query and a title such that the title contains the query
\* when letter case is ignored
TitleMatches ==
    {<<"", "Dune">>, <<"", "Foundation">>,
     <<"dune", "Dune">>,
     <<"UN", "Dune">>, <<"UN", "Foundation">>,
     <<"FOUND", "Foundation">>}

\* C16: search_by_title returns exactly the records whose title contains
\* the query ignoring letter case, in collection order, raises nothing also
\* when there is no match, and changes neither the collection nor the file.
C16_SearchByTitle ==
    /\ [](call.op = "search_by_title"
            => /\ outcome = "ok"
               /\ \A k \in 1..Len(view) : view[k] \in 1..Len(books)
               /\ \A j, k \in 1..Len(view) : j < k => view[j] < view[k]
               /\ \A n \in 1..Len(books) :
                     (\E k \in 1..Len(view) : view[k] = n)
                        <=> <<call.title, books[n].title>> \in TitleMatches)
    /\ [][call'.op = "search_by_title"
            => /\ books' = books
               /\ file' = file
               /\ wr' = "none"]_vars

\* the query FOUND on the catalog of Dune and Foundation returned the
\* second record only
C16_Witness ==
    /\ call.op = "search_by_title"
    /\ call.title = "FOUND"
    /\ Len(books) = 2
    /\ books[1].title = "Dune"
    /\ books[2].title = "Foundation"
    /\ view = <<2>>

\* a query that no title contains returned the empty list
C16_WitnessEmpty ==
    /\ call.op = "search_by_title"
    /\ call.title = "xyz"
    /\ Len(books) = 2
    /\ view = <<>>
    /\ outcome = "ok"

\* C17: whatever a caller does with the list display_all returned, or with
\* a record of it, the collection and the status of its records stay as
\* they are.
C17_SnapshotReadOnly ==
    [][call'.op \in {"caller_list", "caller_set"} => books' = books]_vars

====
